---- MODULE Spec2Model ----
(***************************************************************************)
(* Client-side dataset handle of the radicalbit platform SDK               *)
(* (sdk/radicalbit_platform_sdk/apis/model_reference_dataset.py): the      *)
(* job status and the three lazily fetched metric slots of a               *)
(* ModelReferenceDataset, and the accessors statistics(), data_quality()   *)
(* and model_quality() that read and write them; and the Model of          *)
(* sdk/radicalbit_platform_sdk/apis/model.py with its load_* and bind_*    *)
(* operations, which validate a file's headers, upload it and bind it.     *)
(***************************************************************************)
EXTENDS Integers, FiniteSets, Sequences, TLC

\* Number of distinct metric payloads a server may answer with.
NumPayloads == 2

\* Python's None: an empty slot, an absent payload, no return value.
None == 0

\* The validated metric payloads (DatasetStats, DataQuality, ModelQuality values).
Payloads == 1..NumPayloads

\* JobStatus members the handle distinguishes.
JobStatus == {"IMPORTING", "SUCCEEDED", "ERROR"}

\* ModelType members: BINARY, and one that is not BINARY.
ModelType == {"BINARY", "REGRESSION"}

\* The three metric accessors of the handle.
Accessors == {"statistics", "data_quality", "model_quality"}

VARIABLES
    status,         \* self.__status
    statistics,     \* self.__statistics
    data_metrics,   \* self.__data_metrics
    model_metrics,  \* self.__model_metrics
    model_type,     \* self.__model_type
    last,           \* the most recent accessor call, as its caller and the network saw it
    observedError,  \* history: the status has been ERROR after construction or after a call
    calledInError,  \* history: the accessors called since the status became ERROR
    lastObserved,   \* history: the jobStatus of the most recent well-formed response, or the status at construction
    watch,          \* which history this behaviour records (pinned, scenario or none), and of which accessor
    pinned,         \* history: the first value the watched accessor's slot held while the status was SUCCEEDED
    scenario,       \* history: the payload of the watched accessor's fetch that went IMPORTING+empty ->
                    \* SUCCEEDED+payload, until a call of that accessor does anything but serve it from cache
    features,       \* Model._features, as the sequence of the columns' names
    outputs,        \* Model._outputs.output, as the sequence of the columns' names
    target,         \* Model._target.name
    timestamp,      \* Model._timestamp.name
    op,             \* the most recent operation of the Model, as its caller, the object
                    \* storage and the server saw it
    server_features,\* the feature list the server holds for the model
    identity,       \* self.__uuid, self.__path and self.__date
    getter,         \* the most recent call of uuid(), path(), date() or status() since the
                    \* last accessor call, and what it returned
    job,            \* the status of the server-side job, where a behaviour follows it
    download,       \* the object _get_file_headers reads: its bytes, where the storage
                    \* cuts them into chunks, and what the call gave once it was made
    concurrent      \* the threads that call the accessors statement by statement: where
                    \* each is in the accessor's body and the response it holds; and the
                    \* histories of the most recent response and of calls having overlapped

\* The fields and histories of the dataset handle.
handleVars == <<status, statistics, data_metrics, model_metrics, model_type, last,
                observedError, calledInError, lastObserved, watch, pinned, scenario,
                identity, getter, job, concurrent>>

\* The fields of the Model and the record of its latest operation.
modelVars == <<features, outputs, target, timestamp, op, server_features, download>>

vars == <<status, statistics, data_metrics, model_metrics, model_type, last,
          observedError, calledInError, lastObserved, watch, pinned, scenario,
          features, outputs, target, timestamp, op, server_features, download,
          identity, getter, job, concurrent>>

\* ------------------------------------------------------------------------
\* Server replies

\* What the jobStatus key of a response body holds: a member of JobStatus, a
\* string that is no member, or nothing (the key is absent).
JobStatusField == JobStatus \cup {"<absent>", "<unknown>"}

\* What the accessor's metric key holds: nothing (the key is absent), a value
\* that does not validate, or a value that validates to payload.
MetricField == {"absent", "invalid", "valid"}

\* The replies of the transport to one GET: ok is "the status code is the
\* valid_response_code and no network error happened".
Replies ==
    {r \in [ok : BOOLEAN, jobStatus : JobStatusField, metric : MetricField,
            payload : 0..NumPayloads] :
        /\ (r.metric = "valid") <=> (r.payload \in Payloads)
        /\ ~r.ok => (r.jobStatus = "<absent>" /\ r.metric = "absent")}

\* last.reply of a call that made no request.
NoReply == [ok |-> FALSE, jobStatus |-> "<absent>", metric |-> "absent", payload |-> None]

\* The result of a callback, or of invoke: a returned (status, payload) pair
\* or a raised exception.
Returned(job_status, payload) ==
    [outcome |-> "return", status |-> job_status, payload |-> payload]

Raised(exception) ==
    [outcome |-> exception, status |-> "ERROR", payload |-> None]

\* ParseJobStatus with IMPORTING as the default of a missing jobStatus.
ParseJobStatus_defaultImporting(reply) ==
    IF reply.jobStatus = "<absent>" THEN "IMPORTING"
    ELSE IF reply.jobStatus \in JobStatus THEN reply.jobStatus
    ELSE "ValueError"

\* job_status = JobStatus(response_json.get("jobStatus", JobStatus.ERROR)):
\* the enum constructor raises ValueError on a string that is no member.
ParseJobStatus(reply) ==
    IF reply.jobStatus = "<absent>" THEN "ERROR"
    ELSE IF reply.jobStatus \in JobStatus THEN reply.jobStatus
    ELSE "ValueError"

\* statistics.__callback
statistics_callback(reply) ==
    LET job_status == ParseJobStatus(reply) IN
    IF job_status = "ValueError" THEN Raised("ValueError")
    ELSE IF reply.metric # "absent"
         THEN IF reply.metric = "valid"
              THEN Returned(job_status, reply.payload)
              ELSE Raised("ClientError")
         ELSE Returned(job_status, None)

\* data_quality.__callback
data_quality_callback(reply, mtype) ==
    LET job_status == ParseJobStatus(reply) IN
    IF job_status = "ValueError" THEN Raised("ValueError")
    ELSE IF reply.metric # "absent"
         THEN IF mtype = "BINARY"
              THEN IF reply.metric = "valid"
                   THEN Returned(job_status, reply.payload)
                   ELSE Raised("ClientError")
              ELSE Raised("ClientError")
         ELSE Returned(job_status, None)

\* model_quality.__callback
model_quality_callback(reply, mtype) ==
    LET job_status == ParseJobStatus(reply) IN
    IF job_status = "ValueError" THEN Raised("ValueError")
    ELSE IF reply.metric # "absent"
         THEN IF mtype = "BINARY"
              THEN IF reply.metric = "valid"
                   THEN Returned(job_status, reply.payload)
                   ELSE Raised("ClientError")
              ELSE Raised("ClientError")
         ELSE Returned(job_status, None)

\* commons.invoke(method, url, valid_response_code, func): a reply that is not
\* ok is raised before func sees it; otherwise func's result is invoke's.
invoke(reply, result) ==
    IF reply.ok THEN result ELSE Raised("TransportFailure")

\* ------------------------------------------------------------------------
\* The accessor body, the same in statistics(), data_quality() and
\* model_quality() up to the slot it names.

\* Branch with the cache test forgotten: a SUCCEEDED handle fetches again.
Branch_refetch(st, slot) ==
    IF st = "ERROR" THEN "clear" ELSE "fetch"

\* Branch with "or status == IMPORTING" forgotten: a populated slot is served
\* while the job is still importing.
Branch_cacheWhileImporting(st, slot) ==
    IF st = "ERROR" THEN "clear"
    ELSE IF slot = None THEN "fetch" ELSE "cached"

\* Branch with the ERROR test forgotten: the slot is returned as it is.
Branch_errorServesCache(st, slot) ==
    IF st = "ERROR" THEN "cached"
    ELSE IF slot = None \/ st = "IMPORTING" THEN "fetch" ELSE "cached"

\* Branch that asks the server again after an ERROR.
Branch_errorRetries(st, slot) ==
    IF slot = None \/ st # "SUCCEEDED" THEN "fetch" ELSE "cached"

\* Which arm of "if status == ERROR / elif status in (SUCCEEDED, IMPORTING):
\* if slot is None or status == IMPORTING" the call takes.
Branch(st, slot) ==
    IF st = "ERROR" THEN "clear"
    ELSE IF st \in {"SUCCEEDED", "IMPORTING"}
         THEN IF slot = None \/ st = "IMPORTING" THEN "fetch" ELSE "cached"
         ELSE "cached"

\* ClearArm that returns None and leaves the slot as it was.
ClearArm_keepsSlot(st, slot) ==
    [status |-> st, slot |-> slot, requests |-> 0, outcome |-> "return", ret |-> None]

\* self.__slot = None; return self.__slot
ClearArm(st, slot) ==
    [status |-> st, slot |-> None, requests |-> 0, outcome |-> "return", ret |-> None]

\* FetchArm that never writes self.__status.
FetchArm_statusNotStored(st, slot, result) ==
    IF result.outcome = "return"
    THEN [status |-> st, slot |-> result.payload, requests |-> 1,
          outcome |-> "return", ret |-> result.payload]
    ELSE [status |-> st, slot |-> slot, requests |-> 1,
          outcome |-> result.outcome, ret |-> None]

\* FetchArm that writes the slot only when the response carries a payload.
FetchArm_keepsOldSlot(st, slot, result) ==
    IF result.outcome = "return"
    THEN LET value == IF result.payload # None THEN result.payload ELSE slot IN
         [status |-> result.status, slot |-> value, requests |-> 1,
          outcome |-> "return", ret |-> value]
    ELSE [status |-> st, slot |-> slot, requests |-> 1,
          outcome |-> result.outcome, ret |-> None]

\* FetchArm that asks the server once more when the fetch raises.
FetchArm_retries(st, slot, result) ==
    IF result.outcome = "return"
    THEN [status |-> result.status, slot |-> result.payload, requests |-> 1,
          outcome |-> "return", ret |-> result.payload]
    ELSE [status |-> st, slot |-> slot, requests |-> 2,
          outcome |-> result.outcome, ret |-> None]

\* FetchArm that marks the handle ERROR when the fetch raises.
FetchArm_failureSetsError(st, slot, result) ==
    IF result.outcome = "return"
    THEN [status |-> result.status, slot |-> result.payload, requests |-> 1,
          outcome |-> "return", ret |-> result.payload]
    ELSE [status |-> "ERROR", slot |-> slot, requests |-> 1,
          outcome |-> result.outcome, ret |-> None]

\* status, value = invoke(...); self.__status = status; self.__slot = value;
\* return self.__slot.  An exception leaves invoke before either assignment.
FetchArm(st, slot, result) ==
    IF result.outcome = "return"
    THEN [status |-> result.status, slot |-> result.payload, requests |-> 1,
          outcome |-> "return", ret |-> result.payload]
    ELSE [status |-> st, slot |-> slot, requests |-> 1,
          outcome |-> result.outcome, ret |-> None]

\* return self.__slot
CachedArm(st, slot) ==
    [status |-> st, slot |-> slot, requests |-> 0, outcome |-> "return", ret |-> slot]

\* One accessor call on (status, slot), result being what invoke would give.
Call(st, slot, result) ==
    CASE Branch(st, slot) = "clear"  -> ClearArm(st, slot)
      [] Branch(st, slot) = "fetch"  -> FetchArm(st, slot, result)
      [] Branch(st, slot) = "cached" -> CachedArm(st, slot)

\* The slot of an accessor.
Slot(a) ==
    CASE a = "statistics"    -> statistics
      [] a = "data_quality"  -> data_metrics
      [] a = "model_quality" -> model_metrics

\* All three slots are left as they were.
SlotsUnchanged ==
    /\ statistics' = statistics
    /\ data_metrics' = data_metrics
    /\ model_metrics' = model_metrics

\* What the caller and the network saw of the call.
Seen(a, r, reply) ==
    [op |-> a, requests |-> r.requests, outcome |-> r.outcome, ret |-> r.ret,
     reply |-> IF r.requests = 1 THEN reply ELSE NoReply]

\* The history variables after a call of accessor a that started in the
\* unprimed state and ended in the primed status and slots.
History(a) ==
    /\ UNCHANGED modelVars
    /\ UNCHANGED <<watch, identity, job, concurrent>>
    /\ getter' = [name |-> "", value |-> ""]
    /\ observedError' = (observedError \/ status' = "ERROR")
    /\ calledInError' = IF status' # "ERROR" THEN {}
                        ELSE IF status = "ERROR" THEN calledInError \cup {a}
                        ELSE {}
    /\ lastObserved' = IF last'.requests = 1 /\ last'.outcome = "return"
                       THEN IF last'.reply.jobStatus \in JobStatus
                            THEN last'.reply.jobStatus ELSE "ERROR"
                       ELSE lastObserved
    /\ pinned' = IF watch.history # "pinned" THEN None
                 ELSE IF pinned # None THEN pinned
                 ELSE IF status' = "SUCCEEDED" THEN Slot(watch.accessor)' ELSE None
    /\ scenario' = IF watch.history # "scenario" \/ watch.accessor # a
                   THEN scenario
                   ELSE IF /\ status = "IMPORTING" /\ Slot(a) = None
                           /\ last'.requests = 1 /\ last'.outcome = "return"
                           /\ last'.reply.jobStatus = "SUCCEEDED"
                           /\ last'.ret # None
                        THEN last'.ret
                        ELSE IF last'.requests = 0 /\ last'.ret = scenario
                             THEN scenario
                             ELSE None

\* The replies a call can meet: the server is asked only on the fetch arm.
RepliesTo(st, slot) ==
    IF Branch(st, slot) = "fetch" THEN Replies ELSE {NoReply}

\* ------------------------------------------------------------------------
\* The Model: required headers, validation, object keys

\* Model._uuid
model_uuid == "m1"

\* An absent optional str argument (Python's None).
NoColumn == "<None>"

\* An absent object_name argument (Python's None); object names and file
\* names are the sequences of their '/'-separated components.
NoObjectName == <<>>

\* The header rows a dataset file can have: the registered columns with the
\* timestamp, the same with columns the model does not know, with a column
\* twice, with the correlation id, without the output and the timestamp,
\* with a feature spelled in another case, and without the second feature.
HeaderRows ==
    { <<"age", "adult", "prediction", "created_at">>,
      <<"age", "sex", "adult", "prediction", "created_at">>,
      <<"created_at", "prediction", "id", "adult", "sex", "age", "extra">>,
      <<"age", "age", "adult", "prediction", "created_at">>,
      <<"age", "adult", "prediction">>,
      <<"age", "adult">>,
      <<"Age", "adult", "prediction", "created_at">>,
      <<"age", "sex", "adult", "prediction", "id">> }

\* The local files a caller can name.
FileNames == { <<"ref.csv">>, <<"data", "in", "ref.csv">> }

\* The buckets a caller can name.
Buckets == {"bucket"}

\* The object_name arguments a caller can give: none, a name of its own,
\* and the name the other kind of dataset gets by default.
ObjectNames == { NoObjectName, <<"custom", "obj.csv">>, <<model_uuid, "current", "ref.csv">> }

\* The names a caller can give as correlation_id_column.
ColumnNames == {"id"}

\* The empty string given as correlation_id_column.
EmptyColumn == ""

\* The correlation_id_column arguments of load_current_dataset: it is
\* Optional[str] there, and a str in bind_current_dataset.
CorrelationIds == {NoColumn, EmptyColumn} \cup ColumnNames

\* "if correlation_id_column:" is taken for a string that is not empty.
Truthy(correlation_id_column) == correlation_id_column \notin {NoColumn, EmptyColumn}

\* The dataset_url arguments of bind_*: 's3://{bucket}/{key}'.
DatasetUrls ==
    { [scheme |-> "s3", bucket |-> "bucket", key |-> <<"custom", "obj.csv">>],
      [scheme |-> "s3", bucket |-> "bucket", key |-> <<model_uuid, "reference", "ref.csv">>] }

\* The elements of a list.
Range(list) == { list[i] : i \in DOMAIN list }

\* Model._required_headers without the target.
required_headers_withoutTarget == features \o outputs

\* Model._required_headers
required_headers == (features \o outputs) \o <<target>>

\* A header in lower case.
Lower(h) == IF h = "Age" THEN "age" ELSE h

\* The subset test, blind to the case of the headers.
HeadersPresent_ignoringCase(required, file_headers) ==
    { Lower(h) : h \in Range(required) } \subseteq { Lower(h) : h \in Range(file_headers) }

\* The subset test, passing when any required header is present.
HeadersPresent_anyOne(required, file_headers) ==
    Range(required) \cap Range(file_headers) # {}

\* set(required_headers).issubset(file_headers)
HeadersPresent(required, file_headers) ==
    Range(required) \subseteq Range(file_headers)

\* os.path.basename(file_name)
basename(file_name) == file_name[Len(file_name)]

\* The default object key built from the whole file name.
DefaultKey_wholePath(kind, file_name) == (<<model_uuid, kind>>) \o file_name

\* f'{self._uuid}/{kind}/{os.path.basename(file_name)}'
DefaultKey(kind, file_name) == <<model_uuid, kind, basename(file_name)>>

\* The object key of load_*: the caller's object_name, or the default.
ObjectKey(kind, file_name, object_name) ==
    IF object_name = NoObjectName THEN DefaultKey(kind, file_name) ELSE object_name

\* f's3://{bucket}/{object_name}'
S3Url(bucket, key) == [scheme |-> "s3", bucket |-> bucket, key |-> key]

\* The outcomes of s3_client.upload_file: it returns, or it raises
\* botocore's ClientError, or it raises boto3's S3UploadFailedError, which
\* is what the transfer manager turns a ClientError of the upload into and
\* which is no subclass of botocore's ClientError.
UploadOutcomes == {"ok", "BotoClientError", "S3UploadFailedError"}

\* The outcomes of _get_file_headers: it returns the header row, get_object
\* raises botocore's ClientError, or a chunk of the object does not decode.
GetOutcomes == {"ok", "BotoClientError", "UnicodeDecodeError"}

\* s3_client.upload_file returned.
UploadCompleted(up) == up = "ok"

\* The server's replies to a bind request: none (the request failed), a body
\* that is no JSON, a JSON body that is no upload record, or an upload record
\* with its status.
BindReplies ==
    [ok : {FALSE}, json : {FALSE}, valid : {FALSE}, status : {"ERROR"}]
        \cup [ok : {TRUE}, json : {FALSE}, valid : {FALSE}, status : {"ERROR"}]
        \cup [ok : {TRUE}, json : {TRUE}, valid : {FALSE}, status : {"ERROR"}]
        \cup [ok : {TRUE}, json : {TRUE}, valid : {TRUE}, status : JobStatus]

\* No bind request was sent.
NoBindReply == [ok |-> FALSE, json |-> FALSE, valid |-> FALSE, status |-> "<none>"]

\* The callback of the bind, with a handle that starts IMPORTING whatever
\* the upload record says.
bind_callback_alwaysImporting(reply) ==
    IF ~reply.json THEN Raised("JSONDecodeError")
    ELSE IF reply.valid THEN Returned("IMPORTING", None)
    ELSE Raised("ClientError")

\* __callback of _bind_reference_dataset and _bind_current_dataset: the
\* handle is built from the upload record of the response; response.json()
\* raises requests' JSONDecodeError, which is no ValidationError, on a body
\* that is no JSON.
bind_callback(reply) ==
    IF ~reply.json THEN Raised("JSONDecodeError")
    ELSE IF reply.valid THEN Returned(reply.status, None)
    ELSE Raised("ClientError")

\* No upload record came back from a call.
NoAcknowledgment == "<none>"

\* A call the Model made to the object storage or to the server, and the
\* status of the upload record the server acknowledged it with.
ExternalCall(to, bucket, key, correlation_id_column, ok, acknowledged) ==
    [to |-> to, bucket |-> bucket, key |-> key,
     correlation_id_column |-> correlation_id_column, ok |-> ok,
     acknowledged |-> acknowledged]

\* s3_client.upload_file(file_name, bucket, object_name, ...)
UploadCall(bucket, key, up) ==
    ExternalCall("upload_file", bucket, key, NoColumn, up = "ok", NoAcknowledgment)

\* invoke(method='POST', url=f'.../{kind}/bind', data=FileReference(file_url=url, ...))
BindCall(kind, url, correlation_id_column, reply) ==
    ExternalCall(kind, url.bucket, url.key, correlation_id_column, reply.ok,
                 IF reply.ok /\ reply.valid THEN reply.status ELSE NoAcknowledgment)

\* s3_client.get_object(Bucket=bucket, Key=key) of _get_file_headers
GetObjectCall(url, got) ==
    ExternalCall("get_object", url.bucket, url.key, NoColumn, got # "BotoClientError",
                 NoAcknowledgment)

\* What one load_* or bind_* operation did: its arguments, the headers it
\* read and required, its external calls in order, and how it ended.
Operation(name, args, file_headers, required, calls, outcome, handle) ==
    [name |-> name, args |-> args, file_headers |-> file_headers,
     required |-> required, calls |-> calls, outcome |-> outcome, handle |-> handle,
     exchange |-> ""]

\* The arguments of an operation.
Args(file_name, bucket, object_name, dataset_url, correlation_id_column) ==
    [file_name |-> file_name, bucket |-> bucket, object_name |-> object_name,
     dataset_url |-> dataset_url, correlation_id_column |-> correlation_id_column,
     new_features |-> <<>>]

\* No argument of the kind.
NoUrl == [scheme |-> "", bucket |-> "", key |-> <<>>]

\* No handle was returned.
NoHandle == "<no handle>"

\* Before any operation.
NoOperation ==
    Operation("__init__", Args(<<>>, "", NoObjectName, NoUrl, NoColumn),
              <<>>, <<>>, <<>>, [raised |-> "", message |-> ""], NoHandle)

\* The ClientError messages of the Model's operations.
MissingColumns == "does not contain all defined columns"
UnableToUpload == "Unable to upload file to remote storage"
UnableToGetFile == "Unable to get file from remote storage"
UnableToParse == "Unable to parse response"

\* An operation that ended by raising.
Failed(name, args, file_headers, required, calls, exception, message) ==
    Operation(name, args, file_headers, required, calls,
              [raised |-> exception, message |-> message], NoHandle)

\* An operation that ended as its bind request did: with the handle the
\* callback built, with the callback's ClientError, or with invoke's error.
Bound(name, args, file_headers, required, calls, reply) ==
    LET result == invoke(reply, bind_callback(reply)) IN
    IF result.outcome = "return"
    THEN Operation(name, args, file_headers, required, calls,
                   [raised |-> "", message |-> ""], result.status)
    ELSE Failed(name, args, file_headers, required, calls, result.outcome,
                IF result.outcome = "ClientError" THEN UnableToParse ELSE "")

\* except BotoClientError as e: raise ClientError('Unable to upload ...');
\* any other exception leaves the operation as it is.
UploadFailure(up) ==
    IF up = "BotoClientError"
    THEN [raised |-> "ClientError", message |-> UnableToUpload]
    ELSE [raised |-> up, message |-> ""]

\* Model.load_reference_dataset
load_reference_dataset(file_name, bucket, object_name, file_headers, up, reply) ==
    LET args == Args(file_name, bucket, object_name, NoUrl, NoColumn)
        required == required_headers
        key == ObjectKey("reference", file_name, object_name)
        upload == UploadCall(bucket, key, up)
        bind == BindCall("reference/bind", S3Url(bucket, key), NoColumn, reply)
    IN  IF HeadersPresent(required, file_headers)
        THEN IF UploadCompleted(up)
             THEN Bound("load_reference_dataset", args, file_headers, required,
                        <<upload, bind>>, reply)
             ELSE Failed("load_reference_dataset", args, file_headers, required,
                         <<upload>>, UploadFailure(up).raised, UploadFailure(up).message)
        ELSE Failed("load_reference_dataset", args, file_headers, required,
                    <<>>, "ClientError", MissingColumns)

\* How a failed read ends: "except BotoClientError" turns botocore's
\* ClientError into ClientError; UnicodeDecodeError is caught nowhere.
ReadFailure(got) ==
    IF got = "BotoClientError"
    THEN [raised |-> "ClientError", message |-> UnableToGetFile]
    ELSE [raised |-> got, message |-> ""]

\* bind_reference_dataset that binds the object under the default key of
\* the model instead of the caller's URL.
bind_reference_dataset_defaultUrl(dataset_url, got, file_headers, reply) ==
    LET args == Args(<<>>, "", NoObjectName, dataset_url, NoColumn)
        required == required_headers
        get == GetObjectCall(dataset_url, got)
        url == S3Url(dataset_url.bucket,
                     DefaultKey("reference", <<dataset_url.key[Len(dataset_url.key)]>>))
        bind == BindCall("reference/bind", url, NoColumn, reply)
    IN  IF got # "ok"
        THEN Failed("bind_reference_dataset", args, <<>>, <<>>,
                    <<get>>, ReadFailure(got).raised, ReadFailure(got).message)
        ELSE IF HeadersPresent(required, file_headers)
        THEN Bound("bind_reference_dataset", args, file_headers, required,
                   <<get, bind>>, reply)
        ELSE Failed("bind_reference_dataset", args, file_headers, required,
                    <<get>>, "ClientError", MissingColumns)

\* Model.bind_reference_dataset
bind_reference_dataset(dataset_url, got, file_headers, reply) ==
    LET args == Args(<<>>, "", NoObjectName, dataset_url, NoColumn)
        required == required_headers
        get == GetObjectCall(dataset_url, got)
        bind == BindCall("reference/bind", dataset_url, NoColumn, reply)
    IN  IF got # "ok"
        THEN Failed("bind_reference_dataset", args, <<>>, <<>>,
                    <<get>>, ReadFailure(got).raised, ReadFailure(got).message)
        ELSE IF HeadersPresent(required, file_headers)
        THEN Bound("bind_reference_dataset", args, file_headers, required,
                   <<get, bind>>, reply)
        ELSE Failed("bind_reference_dataset", args, file_headers, required,
                    <<get>>, "ClientError", MissingColumns)

\* required_headers_current with "if correlation_id_column:" forgotten.
required_headers_current_always(correlation_id_column) ==
    Append(required_headers, correlation_id_column) \o <<timestamp>>

\* The required headers of load_current_dataset: the correlation id column
\* is added when one is given, the timestamp always.
required_headers_current(correlation_id_column) ==
    (IF Truthy(correlation_id_column)
     THEN Append(required_headers, correlation_id_column)
     ELSE required_headers) \o <<timestamp>>

\* Model.load_current_dataset
load_current_dataset(file_name, bucket, correlation_id_column, object_name, file_headers, up, reply) ==
    LET args == Args(file_name, bucket, object_name, NoUrl, correlation_id_column)
        required == required_headers_current(correlation_id_column)
        key == ObjectKey("current", file_name, object_name)
        upload == UploadCall(bucket, key, up)
        bind == BindCall("current/bind", S3Url(bucket, key), correlation_id_column, reply)
    IN  IF HeadersPresent(required, file_headers)
        THEN IF UploadCompleted(up)
             THEN Bound("load_current_dataset", args, file_headers, required,
                        <<upload, bind>>, reply)
             ELSE Failed("load_current_dataset", args, file_headers, required,
                         <<upload>>, UploadFailure(up).raised, UploadFailure(up).message)
        ELSE Failed("load_current_dataset", args, file_headers, required,
                    <<>>, "ClientError", MissingColumns)

\* Model.bind_current_dataset: the correlation id column and the timestamp
\* are both added to the required headers.
bind_current_dataset(dataset_url, correlation_id_column, got, file_headers, reply) ==
    LET args == Args(<<>>, "", NoObjectName, dataset_url, correlation_id_column)
        required == (required_headers \o <<correlation_id_column>>) \o <<timestamp>>
        get == GetObjectCall(dataset_url, got)
        bind == BindCall("current/bind", dataset_url, correlation_id_column, reply)
    IN  IF got # "ok"
        THEN Failed("bind_current_dataset", args, <<>>, <<>>,
                    <<get>>, ReadFailure(got).raised, ReadFailure(got).message)
        ELSE IF HeadersPresent(required, file_headers)
        THEN Bound("bind_current_dataset", args, file_headers, required,
                   <<get, bind>>, reply)
        ELSE Failed("bind_current_dataset", args, file_headers, required,
                    <<get>>, "ClientError", MissingColumns)

\* The names model.py imports from radicalbit_platform_sdk.models.
ImportedNames ==
    {"AwsCredentials", "ColumnDefinition", "CurrentFileUpload", "DataType", "FileReference",
     "Granularity", "ModelDefinition", "ModelType", "OutputType", "ReferenceFileUpload"}

\* A module in which every name is bound.
Resolves_always(name) == TRUE

\* A global name of model.py is bound when the module imports it; the use of
\* an unbound name raises NameError.
Resolves(name) == name \in ImportedNames

\* What can become of the request that updates the features: it does not
\* reach the server, the server refuses it, the server applies it and answers
\* 200, or the server applies it and the answer does not reach the client.
Exchanges == {"lost request", "refused", "acknowledged", "lost response"}

\* The server applied the request.
Applied(exchange) == exchange \in {"acknowledged", "lost response"}

\* invoke(method='POST', url=f'.../api/models/{uuid}', valid_response_code=200, ...)
UpdateCall(exchange) ==
    ExternalCall("models", "", <<>>, NoColumn, exchange = "acknowledged", NoAcknowledgment)

\* What one update_features call did, and what the server had ready for its
\* request.
Update(new_features, calls, raised, exchange) ==
    [Operation("update_features",
               [Args(<<>>, "", NoObjectName, NoUrl, NoColumn) EXCEPT !.new_features = new_features],
               <<>>, <<>>, calls, [raised |-> raised, message |-> ""], NoHandle)
     EXCEPT !.exchange = exchange]

\* Model.update_features: the local list and the server's list after the
\* call, and what the call did. The argument data=ModelFeatures(...) is
\* evaluated before invoke is called.
update_features(new_features, exchange) ==
    IF ~Resolves("ModelFeatures")
    THEN [features |-> features, server_features |-> server_features,
          op |-> Update(new_features, <<>>, "NameError", exchange)]
    ELSE IF exchange = "acknowledged"
    THEN [features |-> new_features, server_features |-> new_features,
          op |-> Update(new_features, <<UpdateCall(exchange)>>, "", exchange)]
    ELSE [features |-> features,
          server_features |-> IF Applied(exchange) THEN new_features ELSE server_features,
          op |-> Update(new_features, <<UpdateCall(exchange)>>, "TransportFailure", exchange)]

\* _required_headers that extends self._features in place.
features_kept_extendedInPlace == (features \o outputs) \o <<target>>

\* self._features after _required_headers and the appends of load_* and
\* bind_*: self._features + self._outputs.output is a new list, and the
\* appends go to it and to the list of names made from it.
features_kept == features

\* The outcomes an upload can have: there is one only when the file passed
\* the validation.
UploadsAfter(required, file_headers) ==
    IF HeadersPresent(required, file_headers) THEN UploadOutcomes ELSE {"not attempted"}

\* The header rows _get_file_headers can return: none when the object
\* could not be read.
HeaderRowsAfter(got) == IF got = "ok" THEN HeaderRows ELSE {<<>>}

\* The replies a bind request can meet: there is a request only when the
\* steps before it completed.
BindRepliesAfter(completed) == IF completed THEN BindReplies ELSE {NoBindReply}

\* ModelReferenceDataset.__init__: the status is the upload record's, the
\* slots are None.
Handle ==
    /\ status \in JobStatus
    /\ model_type \in ModelType
    /\ statistics = None
    /\ data_metrics = None
    /\ model_metrics = None
    /\ last = [op |-> "__init__", requests |-> 0, outcome |-> "return",
               ret |-> None, reply |-> NoReply]
    /\ observedError = (status = "ERROR")
    /\ calledInError = {}
    /\ lastObserved = status
    /\ pinned = None
    /\ scenario = None
    /\ identity = [uuid |-> "dataset-uuid", path |-> "s3://bucket/m1/reference/ref.csv",
                   date |-> "2024-01-01"]
    /\ getter = [name |-> "", value |-> ""]

\* ------------------------------------------------------------------------
\* The Model: _get_file_headers

\* The longest object body, in bytes.
MaxLen == 4

\* The bytes of an object: an ASCII letter, the separator, the newline, and
\* the two bytes of one character that UTF-8 encodes in two.
Bytes == {"h", ",", "LF", "0xC3", "0xA9"}

\* The separator argument.
Comma == ","

\* The byte strings that are UTF-8: a lead byte is followed by its
\* continuation byte, and a continuation byte follows a lead byte.
RECURSIVE WellFormed(_)
WellFormed(bytes) ==
    IF bytes = <<>> THEN TRUE
    ELSE IF Head(bytes) = "0xC3"
         THEN Len(bytes) >= 2 /\ bytes[2] = "0xA9" /\ WellFormed(Tail(Tail(bytes)))
         ELSE Head(bytes) # "0xA9" /\ WellFormed(Tail(bytes))

\* chunk.decode('UTF-8') of bytes that are UTF-8: the two bytes become one
\* character.
RECURSIVE decode(_)
decode(bytes) ==
    IF bytes = <<>> THEN <<>>
    ELSE IF Head(bytes) = "0xC3"
         THEN <<"U+00E9">> \o decode(Tail(Tail(bytes)))
         ELSE <<Head(bytes)>> \o decode(Tail(bytes))

\* The bodies an object can have: text encoded in UTF-8.
Bodies == {b \in UNION {[1..n -> Bytes] : n \in 0..MaxLen} : WellFormed(b)}

\* iter_chunks(): the body cut after each of the positions in cuts.
RECURSIVE iter_chunks(_, _)
iter_chunks(body, cuts) ==
    IF body = <<>> THEN <<>>
    ELSE LET ends == {i \in 1..Len(body) : i \in cuts \/ i = Len(body)}
             first == CHOOSE i \in ends : \A j \in ends : i <= j
         IN  <<SubSeq(body, 1, first)>>
                 \o iter_chunks(SubSeq(body, first + 1, Len(body)),
                                {i - first : i \in {c \in cuts : c > first}})

\* text.split('\n')[0]: the characters before the first newline.
RECURSIVE FirstLine(_)
FirstLine(text) ==
    IF text = <<>> \/ Head(text) = "LF" THEN <<>>
    ELSE <<Head(text)>> \o FirstLine(Tail(text))

\* line.split(separator): the fields between the separators, at least one.
RECURSIVE split(_, _)
split(line, separator) ==
    IF separator \notin Range(line) THEN <<line>>
    ELSE LET at == CHOOSE i \in DOMAIN line :
                       line[i] = separator /\ \A j \in 1..(i - 1) : line[j] # separator
         IN  <<SubSeq(line, 1, at - 1)>> \o split(SubSeq(line, at + 1, Len(line)), separator)

\* What _get_file_headers gave: a list of headers, or an exception.
Headers(list) == [raised |-> "", headers |-> list]

Undecodable == [raised |-> "UnicodeDecodeError", headers |-> <<>>]

\* for chunk in (c for c in chunks_iterator if '\n' not in chunks):
\*     chunks += chunk.decode('UTF-8')
\* A chunk is decoded on its own, and only while no newline has been read.
RECURSIVE Assemble(_, _)
Assemble(chunks_iterator, chunks) ==
    IF chunks_iterator = <<>> THEN Headers(chunks)
    ELSE IF "LF" \in Range(chunks) THEN Assemble(Tail(chunks_iterator), chunks)
    ELSE IF ~WellFormed(Head(chunks_iterator)) THEN Undecodable
    ELSE Assemble(Tail(chunks_iterator), chunks \o decode(Head(chunks_iterator)))

\* Model._get_file_headers
get_file_headers(chunks_iterator, separator) ==
    LET chunks == Assemble(chunks_iterator, <<>>) IN
    IF chunks.raised # "" THEN chunks
    ELSE Headers(split(FirstLine(chunks.headers), separator))

\* _get_file_headers has not been called.
NotCalled == [raised |-> "<not called>", headers |-> <<>>]

\* No object is read.
NoDownload == [body |-> <<>>, cuts |-> {}, result |-> NotCalled]

\* The feature lists a Model can be created with.
FeatureLists == { <<"age">>, <<"age", "sex">> }

\* Model.__init__: the columns are the model definition's.
Registry ==
    /\ features \in FeatureLists
    /\ outputs = <<"prediction">>
    /\ target = "adult"
    /\ timestamp = "created_at"
    /\ op = NoOperation
    /\ server_features = features
    /\ download = NoDownload

\* One Model, while the handle is exercised.
OneModel == Registry /\ features = <<"age">>

\* The server-side job is not followed.
Unobserved == "<unobserved>"

\* The threads that may call the accessors of one handle at the same time.
Threads == {"t1", "t2"}

\* The other thread.
Other(t) == CHOOSE u \in Threads : u # t

\* A thread holds no response.
NoResult == Raised("")

\* The accessor each thread calls: the same one, or two that share only
\* self.__status.
Assignments ==
    {f \in [Threads -> {"statistics", "data_quality"}] : f["t1"] = "statistics"}

\* No thread is inside an accessor: every call runs from its first statement
\* to its return in one step.
Sequential ==
    [pc |-> [t \in Threads |-> "idle"], holds |-> [t \in Threads |-> NoResult],
     accessor |-> [t \in Threads |-> "statistics"], latest |-> "IMPORTING",
     overlapped |-> FALSE]

\* One handle, while the Model is exercised.
OneHandle ==
    /\ Handle
    /\ status = "IMPORTING"
    /\ model_type = "BINARY"
    /\ watch = [history |-> "none", accessor |-> "statistics"]
    /\ job = Unobserved
    /\ concurrent = Sequential

Init ==
    /\ Handle
    /\ watch = [history |-> "none", accessor |-> "statistics"]
    /\ OneModel
    /\ job = Unobserved
    /\ concurrent = Sequential

\* The same handle, recording the history pinned of any one accessor.
InitPinned ==
    /\ Handle
    /\ watch \in [history : {"pinned"}, accessor : Accessors]
    /\ OneModel
    /\ job = Unobserved
    /\ concurrent = Sequential

\* The same handle, recording the history scenario of any one accessor.
InitScenario ==
    /\ Handle
    /\ watch \in [history : {"scenario"}, accessor : Accessors]
    /\ OneModel
    /\ job = Unobserved
    /\ concurrent = Sequential

\* A handle of a binary model bound to a job that is IMPORTING, with the
\* server-side job followed.
InitGetters ==
    /\ Handle
    /\ status = "IMPORTING"
    /\ model_type = "BINARY"
    /\ watch = [history |-> "none", accessor |-> "statistics"]
    /\ OneModel
    /\ job = status
    /\ concurrent = Sequential

\* A Model with any of the feature lists.
InitModel == OneHandle /\ Registry

\* A handle that starts IMPORTING, of a model of either type, with the
\* server-side job running and the caller polling any one accessor.
InitPolling ==
    /\ Handle
    /\ status = "IMPORTING"
    /\ watch \in [history : {"none"}, accessor : Accessors]
    /\ OneModel
    /\ job = "IMPORTING"
    /\ concurrent = Sequential

\* A Model, and an object of any body that the storage will deliver cut in
\* any way.
InitHeaders ==
    /\ OneHandle
    /\ features = <<"age">>
    /\ outputs = <<"prediction">>
    /\ target = "adult"
    /\ timestamp = "created_at"
    /\ op = NoOperation
    /\ server_features = features
    /\ download \in UNION {[body : {b}, cuts : SUBSET (1..(Len(b) - 1)), result : {NotCalled}]
                                : b \in Bodies}

\* A handle of a binary model bound to a job that is IMPORTING, shared by two
\* threads that have not called it yet.
InitThreads ==
    /\ Handle
    /\ status = "IMPORTING"
    /\ model_type = "BINARY"
    /\ watch = [history |-> "none", accessor |-> "statistics"]
    /\ OneModel
    /\ job = Unobserved
    /\ concurrent \in {[Sequential EXCEPT !.accessor = f, !.latest = status] : f \in Assignments}

\* statistics() that, on a handle in ERROR, invalidates all three slots.
Statistics_invalidatesAll ==
    \E reply \in RepliesTo(status, statistics) :
        LET r == Call(status, statistics, invoke(reply, statistics_callback(reply))) IN
        /\ status' = r.status
        /\ statistics' = r.slot
        /\ data_metrics' = IF status = "ERROR" THEN None ELSE data_metrics
        /\ model_metrics' = IF status = "ERROR" THEN None ELSE model_metrics
        /\ UNCHANGED model_type
        /\ last' = Seen("statistics", r, reply)
        /\ History("statistics")

\* ModelReferenceDataset.statistics
Statistics ==
    \E reply \in RepliesTo(status, statistics) :
        LET r == Call(status, statistics, invoke(reply, statistics_callback(reply))) IN
        /\ status' = r.status
        /\ statistics' = r.slot
        /\ UNCHANGED <<data_metrics, model_metrics, model_type>>
        /\ last' = Seen("statistics", r, reply)
        /\ History("statistics")

\* ModelReferenceDataset.data_quality
DataQuality ==
    \E reply \in RepliesTo(status, data_metrics) :
        LET r == Call(status, data_metrics,
                      invoke(reply, data_quality_callback(reply, model_type))) IN
        /\ status' = r.status
        /\ data_metrics' = r.slot
        /\ UNCHANGED <<statistics, model_metrics, model_type>>
        /\ last' = Seen("data_quality", r, reply)
        /\ History("data_quality")

\* ModelReferenceDataset.model_quality
ModelQuality ==
    \E reply \in RepliesTo(status, model_metrics) :
        LET r == Call(status, model_metrics,
                      invoke(reply, model_quality_callback(reply, model_type))) IN
        /\ status' = r.status
        /\ model_metrics' = r.slot
        /\ UNCHANGED <<statistics, data_metrics, model_type>>
        /\ last' = Seen("model_quality", r, reply)
        /\ History("model_quality")

\* A getter returned value: nothing else of the handle is touched.
Returns(name, value) ==
    /\ getter' = [name |-> name, value |-> value]
    /\ UNCHANGED <<status, statistics, data_metrics, model_metrics, model_type, last,
                   observedError, calledInError, lastObserved, watch, pinned, scenario,
                   identity, job, concurrent>>
    /\ UNCHANGED modelVars

\* ModelReferenceDataset.uuid
Uuid == Returns("uuid", identity.uuid)

\* ModelReferenceDataset.path
Path == Returns("path", identity.path)

\* ModelReferenceDataset.date
Date == Returns("date", identity.date)

\* status() that asks the server for the job's status and stores it.
Status_polls ==
    /\ job \in JobStatus
    /\ status' = job
    /\ getter' = [name |-> "status", value |-> job]
    /\ UNCHANGED <<statistics, data_metrics, model_metrics, model_type, last,
                   observedError, calledInError, lastObserved, watch, pinned, scenario,
                   identity, job, concurrent>>
    /\ UNCHANGED modelVars

\* ModelReferenceDataset.status
Status == Returns("status", status)

\* The server-side job moves to another status; the handle is not told.
JobAdvances ==
    /\ job \in JobStatus
    /\ \E next \in JobStatus \ {job} : job' = next
    /\ UNCHANGED <<status, statistics, data_metrics, model_metrics, model_type, last,
                   observedError, calledInError, lastObserved, watch, pinned, scenario,
                   identity, getter, concurrent>>
    /\ UNCHANGED modelVars

\* Model.load_reference_dataset
LoadReferenceDataset ==
    \E file_name \in FileNames, bucket \in Buckets, object_name \in ObjectNames,
       file_headers \in HeaderRows :
        \E up \in UploadsAfter(required_headers, file_headers) :
            \E reply \in BindRepliesAfter(HeadersPresent(required_headers, file_headers)
                                          /\ UploadCompleted(up)) :
                /\ op' = load_reference_dataset(file_name, bucket, object_name,
                                                file_headers, up, reply)
                /\ features' = features_kept
                /\ UNCHANGED <<outputs, target, timestamp, server_features, download>>
                /\ UNCHANGED handleVars

\* Model.bind_reference_dataset
BindReferenceDataset ==
    \E dataset_url \in DatasetUrls, got \in GetOutcomes :
        \E file_headers \in HeaderRowsAfter(got) :
            \E reply \in BindRepliesAfter(got = "ok"
                                          /\ HeadersPresent(required_headers, file_headers)) :
                /\ op' = bind_reference_dataset(dataset_url, got, file_headers, reply)
                /\ features' = features_kept
                /\ UNCHANGED <<outputs, target, timestamp, server_features, download>>
                /\ UNCHANGED handleVars

\* Model.load_current_dataset
LoadCurrentDataset ==
    \E file_name \in FileNames, bucket \in Buckets, object_name \in ObjectNames,
       correlation_id_column \in CorrelationIds, file_headers \in HeaderRows :
        LET required == required_headers_current(correlation_id_column) IN
        \E up \in UploadsAfter(required, file_headers) :
            \E reply \in BindRepliesAfter(HeadersPresent(required, file_headers)
                                          /\ UploadCompleted(up)) :
                /\ op' = load_current_dataset(file_name, bucket, correlation_id_column,
                                              object_name, file_headers, up, reply)
                /\ features' = features_kept
                /\ UNCHANGED <<outputs, target, timestamp, server_features, download>>
                /\ UNCHANGED handleVars

\* Model.bind_current_dataset
BindCurrentDataset ==
    \E dataset_url \in DatasetUrls, correlation_id_column \in CorrelationIds \ {NoColumn},
       got \in GetOutcomes :
        \E file_headers \in HeaderRowsAfter(got) :
            LET required == (required_headers \o <<correlation_id_column>>) \o <<timestamp>> IN
            \E reply \in BindRepliesAfter(got = "ok" /\ HeadersPresent(required, file_headers)) :
                /\ op' = bind_current_dataset(dataset_url, correlation_id_column, got,
                                              file_headers, reply)
                /\ features' = features_kept
                /\ UNCHANGED <<outputs, target, timestamp, server_features, download>>
                /\ UNCHANGED handleVars

\* Model.update_features
UpdateFeatures ==
    \E new_features \in FeatureLists, exchange \in Exchanges :
        LET r == update_features(new_features, exchange) IN
        /\ features' = r.features
        /\ server_features' = r.server_features
        /\ op' = r.op
        /\ UNCHANGED <<outputs, target, timestamp, download>>
        /\ UNCHANGED handleVars

\* ------------------------------------------------------------------------
\* Overlapping calls: a thread runs one statement of the accessor's body per
\* step, and the other thread's steps may fall between any two of them

\* The callback of an accessor.
Callback(a, reply) ==
    CASE a = "statistics"    -> statistics_callback(reply)
      [] a = "data_quality"  -> data_quality_callback(reply, model_type)
      [] a = "model_quality" -> model_quality_callback(reply, model_type)

\* The slot of accessor a is assigned v; the other slots are left alone.
Assign(a, v) ==
    /\ statistics' = IF a = "statistics" THEN v ELSE statistics
    /\ data_metrics' = IF a = "data_quality" THEN v ELSE data_metrics
    /\ model_metrics' = IF a = "model_quality" THEN v ELSE model_metrics

\* Thread t moves to pc holding result; latest is the status carried by the
\* most recent response a callback returned; the calls have overlapped once
\* a thread takes a step while the other is inside an accessor.
Moves(t, pc, result, latest) ==
    /\ concurrent' = [concurrent EXCEPT
            !.pc[t] = pc, !.holds[t] = result, !.latest = latest,
            !.overlapped = @ \/ concurrent.pc[Other(t)] # "idle"]
    /\ UNCHANGED <<model_type, last, observedError, calledInError, lastObserved, watch,
                   pinned, scenario, identity, getter, job>>
    /\ UNCHANGED modelVars

\* if self.__status == JobStatus.ERROR: self.__<slot> = None, and the return
Line72(t) ==
    /\ concurrent.pc[t] = "idle"
    /\ UNCHANGED status
    /\ IF status = "ERROR"
       THEN Assign(concurrent.accessor[t], None) /\ Moves(t, "idle", NoResult, concurrent.latest)
       ELSE SlotsUnchanged /\ Moves(t, "line74", NoResult, concurrent.latest)

\* elif self.__status in (JobStatus.SUCCEEDED, JobStatus.IMPORTING):
Line74(t) ==
    /\ concurrent.pc[t] = "line74"
    /\ UNCHANGED status
    /\ SlotsUnchanged
    /\ Moves(t, IF status \in {"SUCCEEDED", "IMPORTING"} THEN "line75" ELSE "idle",
             NoResult, concurrent.latest)

\* if self.__<slot> is None or self.__status == JobStatus.IMPORTING:
Line75(t) ==
    /\ concurrent.pc[t] = "line75"
    /\ UNCHANGED status
    /\ SlotsUnchanged
    /\ Moves(t, IF Slot(concurrent.accessor[t]) = None \/ status = "IMPORTING"
                THEN "line76" ELSE "idle",
             NoResult, concurrent.latest)

\* status, stats = invoke(...): the request, its response and the callback; an
\* exception leaves the accessor
Line76(t) ==
    /\ concurrent.pc[t] = "line76"
    /\ UNCHANGED status
    /\ SlotsUnchanged
    /\ \E reply \in Replies :
           LET result == invoke(reply, Callback(concurrent.accessor[t], reply)) IN
           IF result.outcome = "return"
           THEN Moves(t, "line82", result, result.status)
           ELSE Moves(t, "idle", NoResult, concurrent.latest)

\* Line82 that leaves self.__status as it is.
Line82_statusNotStored(t) ==
    /\ concurrent.pc[t] = "line82"
    /\ UNCHANGED status
    /\ SlotsUnchanged
    /\ Moves(t, "line83", concurrent.holds[t], concurrent.latest)

\* self.__status = status
Line82(t) ==
    /\ concurrent.pc[t] = "line82"
    /\ status' = concurrent.holds[t].status
    /\ SlotsUnchanged
    /\ Moves(t, "line83", concurrent.holds[t], concurrent.latest)

\* self.__<slot> = <payload>, and the return
Line83(t) ==
    /\ concurrent.pc[t] = "line83"
    /\ UNCHANGED status
    /\ Assign(concurrent.accessor[t], concurrent.holds[t].payload)
    /\ Moves(t, "idle", NoResult, concurrent.latest)

\* ------------------------------------------------------------------------
\* Polling: the caller calls an accessor again and again while the
\* server-side job runs and settles

\* What the server answers for a job: IMPORTING and no metric yet, or the
\* request fails, while the job runs; SUCCEEDED and a payload once it has
\* succeeded; ERROR, with or without a payload, once it has failed.
Answers(j) ==
    {r \in Replies :
        CASE j = "IMPORTING" -> ~r.ok \/ (r.jobStatus = "IMPORTING" /\ r.metric = "absent")
          [] j = "SUCCEEDED" -> r.ok /\ r.jobStatus = "SUCCEEDED" /\ r.metric = "valid"
          [] j = "ERROR"     -> r.ok /\ r.jobStatus = "ERROR" /\ r.metric # "invalid"
          [] OTHER           -> FALSE}

\* One call of accessor a, answered for the job as it is now.
AccessorCall(a) ==
    \E reply \in IF Branch(status, Slot(a)) = "fetch" THEN Answers(job) ELSE {NoReply} :
        LET r == Call(status, Slot(a), invoke(reply, Callback(a, reply))) IN
        /\ status' = r.status
        /\ Assign(a, r.slot)
        /\ UNCHANGED model_type
        /\ last' = Seen(a, r, reply)
        /\ History(a)

\* The caller polls the accessor it has chosen.
KeepsCalling == AccessorCall(watch.accessor)

\* Now and then the caller calls one of the other two accessors.
CallsAnother == \E a \in Accessors \ {watch.accessor} : AccessorCall(a)

\* The server-side job ends, in SUCCEEDED or in ERROR, and stays there.
JobSettles ==
    /\ job = "IMPORTING"
    /\ \E end \in {"SUCCEEDED", "ERROR"} : job' = end
    /\ UNCHANGED <<status, statistics, data_metrics, model_metrics, model_type, last,
                   observedError, calledInError, lastObserved, watch, pinned, scenario,
                   identity, getter, concurrent>>
    /\ UNCHANGED modelVars

\* Model._get_file_headers on the object, delivered in its chunks.
GetFileHeaders ==
    /\ download.result = NotCalled
    /\ download' = [download EXCEPT
            !.result = get_file_headers(iter_chunks(download.body, download.cuts), Comma)]
    /\ UNCHANGED <<features, outputs, target, timestamp, op, server_features>>
    /\ UNCHANGED handleVars

Next == Statistics \/ DataQuality \/ ModelQuality

\* The operations of the Model.
NextModel ==
    \/ LoadReferenceDataset
    \/ BindReferenceDataset
    \/ LoadCurrentDataset
    \/ BindCurrentDataset
    \/ UpdateFeatures

Spec == Init /\ [][Next]_vars

SpecPinned == InitPinned /\ [][Next]_vars

SpecScenario == InitScenario /\ [][Next]_vars

SpecModel == InitModel /\ [][NextModel]_vars

\* The handle with its getters and the server-side job.
NextGetters == Next \/ Uuid \/ Path \/ Date \/ Status \/ JobAdvances

SpecGetters == InitGetters /\ [][NextGetters]_vars

\* A handle or a Model: the two share no field, so a behaviour exercises
\* one of them.
NextEither ==
    \/ op.name = "__init__" /\ Next
    \/ last.op = "__init__" /\ NextModel

SpecEither == InitModel /\ [][NextEither]_vars

\* The header line of one object.
SpecHeaders == InitHeaders /\ [][GetFileHeaders]_vars

\* Two threads on one handle, with nothing that orders their statements.
NextThreads ==
    \E t \in Threads :
        Line72(t) \/ Line74(t) \/ Line75(t) \/ Line76(t) \/ Line82(t) \/ Line83(t)

SpecThreads == InitThreads /\ [][NextThreads]_vars

\* A caller that polls one accessor of a handle whose job runs and settles.
NextPolling == KeepsCalling \/ CallsAnother \/ JobSettles

\* Every call returns or raises (the accessors have no loop and the transport
\* is synchronous), so a caller that keeps calling gets its next call; the
\* job does not run for ever.
SpecPolling ==
    InitPolling /\ [][NextPolling]_vars /\ WF_vars(KeepsCalling) /\ WF_vars(JobSettles)

\* The values the state can hold.
TypeOK ==
    /\ status \in JobStatus
    /\ model_type \in ModelType
    /\ statistics \in {None} \cup Payloads
    /\ data_metrics \in {None} \cup Payloads
    /\ model_metrics \in {None} \cup Payloads
    /\ last.op \in Accessors \cup {"__init__"}
    /\ last.requests \in {0, 1}
    /\ last.outcome \in {"return", "ClientError", "ValueError", "TransportFailure"}
    /\ last.ret \in {None} \cup Payloads
    /\ watch \in [history : {"none", "pinned", "scenario"}, accessor : Accessors]
    /\ lastObserved \in JobStatus
    /\ pinned \in {None} \cup Payloads
    /\ scenario \in {None} \cup Payloads
    /\ getter.name \in {"", "uuid", "path", "date", "status"}
    /\ job \in JobStatus \cup {Unobserved}
    /\ concurrent.pc \in [Threads -> {"idle", "line74", "line75", "line76", "line82", "line83"}]
    /\ concurrent.accessor \in [Threads -> Accessors]
    /\ concurrent.latest \in JobStatus
    /\ concurrent.overlapped \in BOOLEAN
    /\ download.body \in Bodies
    /\ download.cuts \subseteq 1..MaxLen
    /\ download.result.raised \in {"", "UnicodeDecodeError", "<not called>"}
    /\ \A t \in Threads : concurrent.holds[t].payload \in {None} \cup Payloads
    /\ features \in FeatureLists
    /\ server_features \in FeatureLists
    /\ op.name \in {"__init__", "load_reference_dataset", "bind_reference_dataset",
                    "load_current_dataset", "bind_current_dataset", "update_features"}
    /\ op.exchange \in Exchanges \cup {""}
    /\ op.outcome.raised \in {"", "ClientError", "TransportFailure", "S3UploadFailedError",
                             "JSONDecodeError", "NameError", "UnicodeDecodeError"}
    /\ op.handle \in JobStatus \cup {NoHandle}
    /\ Len(op.calls) \in 0..2

\* ------------------------------------------------------------------------
\* Properties of the accessors

\* A step is a call of accessor a.
Calls(a) == last'.op = a

\* C1: a call of an accessor that starts with status SUCCEEDED and its own
\* slot populated issues no request, returns the slot's value and leaves the
\* status and all three slots unchanged, however often it is repeated.
C1_CacheHit ==
    [][\A a \in Accessors :
        (Calls(a) /\ status = "SUCCEEDED" /\ Slot(a) # None)
            => /\ last'.requests = 0
               /\ last'.outcome = "return"
               /\ last'.ret = Slot(a)
               /\ status' = status
               /\ SlotsUnchanged]_vars

\* A call was served from the cache of a SUCCEEDED handle.
C1_Witness ==
    /\ last.op \in Accessors
    /\ status = "SUCCEEDED"
    /\ last.requests = 0
    /\ last.ret # None
    /\ last.ret = Slot(last.op)

C3_FetchCondition ==
    [][\A a \in Accessors :
        Calls(a) =>
            ((last'.requests = 1)
                <=> (status = "IMPORTING" \/ (status = "SUCCEEDED" /\ Slot(a) = None)))]_vars

\* A call fetched although its slot was populated: the fetch raised, so the
\* IMPORTING status and the populated slot are those the call started with.
C3_Witness ==
    /\ last.op \in Accessors
    /\ last.requests = 1
    /\ last.outcome # "return"
    /\ status = "IMPORTING"
    /\ Slot(last.op) # None

\* C4: after a call that fetched a well-formed response, the status is the
\* response's jobStatus, the accessor's slot holds the response's payload, or
\* is empty when the response has none, and the call returned its slot.
C4_FetchResult ==
    (last.requests = 1 /\ last.outcome = "return")
        => /\ last.reply.jobStatus \in JobStatus => status = last.reply.jobStatus
           /\ last.reply.metric = "valid" => Slot(last.op) = last.reply.payload
           /\ last.reply.metric = "absent" => Slot(last.op) = None
           /\ last.reply.metric # "invalid"
           /\ last.ret = Slot(last.op)

\* A fetch of a response without payload emptied a slot of a handle that
\* holds another payload, and set the status the response reports.
C4_Witness ==
    /\ last.requests = 1
    /\ last.outcome = "return"
    /\ last.reply.jobStatus = "IMPORTING"
    /\ last.reply.metric = "absent"
    /\ \E b \in Accessors \ {last.op} : Slot(b) # None

\* C5: once the status has been observed as ERROR, every call of every
\* accessor returns None and leaves its own slot empty.
C5_ErrorYieldsNone ==
    [][\A a \in Accessors :
        (observedError /\ Calls(a))
            => /\ last'.outcome = "return"
               /\ last'.ret = None
               /\ Slot(a)' = None]_vars

\* Two accessors were called after the ERROR was observed while the third
\* still holds the payload it cached before.
C5_Witness ==
    /\ observedError
    /\ Cardinality(calledInError) = 2
    /\ \E b \in Accessors \ calledInError : Slot(b) # None

\* C6: with status ERROR no call issues a request and the status stays ERROR.
C6_ErrorTerminal ==
    [][status = "ERROR" => (status' = "ERROR" /\ last'.requests = 0)]_vars

\* All three accessors were called on a handle in ERROR.
C6_Witness ==
    /\ status = "ERROR"
    /\ calledInError = Accessors

\* C7, as claimed: once the status is SUCCEEDED it remains SUCCEEDED after
\* every accessor call, whatever the server answers.
C7_Original ==
    [][status = "SUCCEEDED" => status' = "SUCCEEDED"]_vars

\* C7, amended: a SUCCEEDED status survives every call served from the cache,
\* every fetch that raises and every fetch whose response reports SUCCEEDED;
\* it changes only when an accessor whose slot is empty fetches a well-formed
\* response that reports IMPORTING or ERROR or carries no jobStatus, and then
\* to IMPORTING or ERROR as that response says (ERROR when it says nothing).
C7_Amended ==
    [][(status = "SUCCEEDED" /\ status' # "SUCCEEDED")
        => /\ last'.op \in Accessors
           /\ Slot(last'.op) = None
           /\ last'.requests = 1
           /\ last'.outcome = "return"
           /\ last'.reply.jobStatus \in {"IMPORTING", "ERROR", "<absent>"}
           /\ status' = IF last'.reply.jobStatus = "<absent>"
                        THEN "ERROR" ELSE last'.reply.jobStatus]_vars

\* The watched accessor cached a payload while the status was SUCCEEDED, and
\* the fetch of another accessor has since moved the status away.
C7_Witness ==
    /\ pinned # None
    /\ status # "SUCCEEDED"
    /\ last.op \in Accessors \ {watch.accessor}
    /\ last.requests = 1
    /\ last.outcome = "return"

\* C8, as claimed: whenever the status is ERROR all three slots are empty.
C8_Original ==
    status = "ERROR"
        => (statistics = None /\ data_metrics = None /\ model_metrics = None)

\* C8, amended: whenever the status is ERROR, the slot of every accessor that
\* has been called since the status became ERROR is empty; a slot that was
\* populated before stays populated until its own accessor is called.
C8_Amended ==
    status = "ERROR" => \A a \in calledInError : Slot(a) = None

\* One accessor was called under ERROR and holds nothing, while another one
\* still holds a payload.
C8_Witness ==
    /\ status = "ERROR"
    /\ \E a \in calledInError : Slot(a) = None
    /\ \E b \in Accessors \ calledInError : Slot(b) # None

\* C9: no accessor call returns a payload when the status at its return is
\* ERROR, the call whose response first reports ERROR included.
C9_ErrorNeverYieldsMetrics ==
    (last.op \in Accessors /\ last.outcome = "return" /\ status = "ERROR")
        => last.ret = None

\* C10, as claimed: the value the watched accessor's slot first held while the
\* status was SUCCEEDED is the value it holds ever after.
C10_Original ==
    pinned # None => Slot(watch.accessor) = pinned

\* C10, amended: a slot populated while the status is SUCCEEDED keeps its
\* value across every call of the other two accessors, whatever status they
\* observe, and across every call of its own accessor that starts with status
\* SUCCEEDED; it is rewritten only by a call of its own accessor that starts
\* with status IMPORTING or ERROR.
C10_Amended ==
    [][/\ (pinned # None /\ Slot(watch.accessor) = pinned
           /\ Slot(watch.accessor)' # pinned)
            => /\ Calls(watch.accessor)
               /\ status \in {"IMPORTING", "ERROR"}
       /\ \A a \in Accessors :
            (Slot(a) # None /\ Slot(a)' # Slot(a))
                => /\ Calls(a)
                   /\ status \in {"IMPORTING", "ERROR"}]_vars

\* The watched slot still holds its pinned value after another accessor
\* observed a status other than SUCCEEDED.
C10_Witness ==
    /\ pinned # None
    /\ Slot(watch.accessor) = pinned
    /\ status # "SUCCEEDED"
    /\ last.op \in Accessors \ {watch.accessor}

\* C11: a fetched response whose metric key is present with a payload that
\* does not validate makes the accessor raise ClientError, and leaves the
\* status and all three slots as they were.
C11_InvalidPayloadRaisesClientError ==
    [][\A a \in Accessors :
        (Calls(a) /\ last'.requests = 1 /\ last'.reply.ok
         /\ last'.reply.metric = "invalid")
            => /\ last'.outcome = "ClientError"
               /\ status' = status
               /\ SlotsUnchanged]_vars

\* C12: on a handle with status IMPORTING, a 200 response that carries
\* neither jobStatus nor the accessor's metric key makes the accessor raise
\* ClientError.
C12_EmptyObjectRaisesClientError ==
    [][\A a \in Accessors :
        (Calls(a) /\ status = "IMPORTING" /\ last'.requests = 1 /\ last'.reply.ok
         /\ last'.reply.jobStatus = "<absent>" /\ last'.reply.metric = "absent")
            => last'.outcome = "ClientError"]_vars

\* C13: on a handle whose model kind is not binary, a data_quality() or
\* model_quality() call whose response carries the metric key raises
\* ClientError, and leaves the status and all three slots as they were.
C13_NonBinaryRaisesClientError ==
    [][\A a \in {"data_quality", "model_quality"} :
        (Calls(a) /\ model_type # "BINARY" /\ last'.requests = 1 /\ last'.reply.ok
         /\ last'.reply.metric # "absent")
            => /\ last'.outcome = "ClientError"
               /\ status' = status
               /\ SlotsUnchanged]_vars

\* C14: a call of an accessor, returning or raising, leaves the slots of the
\* other two accessors as they were.
C14_OtherSlotsUntouched ==
    [][\A a \in Accessors :
        Calls(a) => \A b \in Accessors \ {a} : Slot(b)' = Slot(b)]_vars

\* A call emptied its own slot on a handle in ERROR while both other slots
\* still hold a payload.
C14_Witness ==
    /\ status = "ERROR"
    /\ last.op \in Accessors
    /\ last.requests = 0
    /\ Slot(last.op) = None
    /\ \A b \in Accessors \ {last.op} : Slot(b) # None

\* C15: after every call the status is the jobStatus of the most recent
\* well-formed response any accessor received (the status at construction
\* when there was none), and every call, of whichever accessor, returns None,
\* serves its cache or fetches as that status commands.
C15_LatestStatusGoverns ==
    [][/\ status' = lastObserved'
       /\ \A a \in Accessors :
            Calls(a) =>
                /\ lastObserved = "ERROR"
                    => (last'.requests = 0 /\ last'.ret = None)
                /\ (lastObserved = "SUCCEEDED" /\ Slot(a) # None)
                    => (last'.requests = 0 /\ last'.ret = Slot(a))
                /\ (lastObserved = "IMPORTING"
                    \/ (lastObserved = "SUCCEEDED" /\ Slot(a) = None))
                    => last'.requests = 1]_vars

\* A call returned None without a request on a handle that holds a payload
\* and whose ERROR status came from a response.
C15_Witness ==
    /\ status = "ERROR"
    /\ last.op \in Accessors
    /\ last.requests = 0
    /\ calledInError = {last.op}
    /\ \E b \in Accessors \ {last.op} : Slot(b) # None

\* ------------------------------------------------------------------------
\* Properties of the Model's load_* and bind_* operations

\* The latest operation is one of the four load_* and bind_* operations.
Operated == op.name \notin {"__init__", "update_features"}

\* The latest operation is about a current dataset.
Current == op.name \in {"load_current_dataset", "bind_current_dataset"}

\* The latest operation uploads a local file.
Loads == op.name \in {"load_reference_dataset", "load_current_dataset"}

\* The names of the features, of the output columns and of the target and,
\* for a current dataset, of the timestamp and of the correlation id column
\* the caller gave.
RequiredNames ==
    Range(features) \cup Range(outputs) \cup {target}
        \cup (IF Current
              THEN {timestamp} \cup (IF op.name = "bind_current_dataset"
                                       THEN {op.args.correlation_id_column}
                                       ELSE {op.args.correlation_id_column}
                                                \ {NoColumn, EmptyColumn})
              ELSE {})

\* The positions of the uploads among the calls of the latest operation.
UploadsOf == { i \in DOMAIN op.calls : op.calls[i].to = "upload_file" }

\* The positions of the bind requests among the calls of the latest operation.
BindsOf == { i \in DOMAIN op.calls : op.calls[i].to \in {"reference/bind", "current/bind"} }

\* C16: an operation that read the headers of its file, and found that they
\* lack a required header, raises ClientError, attempts no upload, sends no
\* bind request and returns no handle.
C16_MissingHeaderAborts ==
    (Operated /\ op.required # <<>> /\ ~(RequiredNames \subseteq Range(op.file_headers)))
        => /\ op.outcome.raised = "ClientError"
           /\ UploadsOf = {}
           /\ BindsOf = {}
           /\ op.handle = NoHandle

\* bind_current_dataset read a file that has every column but the
\* correlation id, and refused it.
C16_Witness ==
    /\ op.name = "bind_current_dataset"
    /\ op.file_headers = <<"age", "sex", "adult", "prediction", "created_at">>
    /\ op.args.correlation_id_column = "id"
    /\ op.outcome.message = MissingColumns
    /\ Len(op.calls) = 1

\* C17: the headers an operation requires are exactly the names of the
\* features, of the output columns and of the target and, for a current
\* dataset, the timestamp's name and the name of the correlation id column.
C17_RequiredHeaders ==
    (Operated /\ op.required # <<>>) => Range(op.required) = RequiredNames

\* load_current_dataset of a model with two features was given a
\* correlation id column and computed its required headers.
C17_Witness ==
    /\ op.name = "load_current_dataset"
    /\ features = <<"age", "sex">>
    /\ op.args.correlation_id_column = "id"
    /\ Len(op.required) = 6

\* C18: a file whose headers were read passes the validation exactly when
\* every required name equals one of its headers; [age, adult, prediction,
\* created_at] passes as a reference file of the model with the feature age,
\* and [age, adult] does not.
C18_ValidationIsSubsetTest ==
    /\ (Operated /\ op.file_headers # <<>>)
        => ((op.outcome.message # MissingColumns)
            <=> \A h \in RequiredNames :
                    \E i \in DOMAIN op.file_headers : op.file_headers[i] = h)
    /\ (Operated /\ ~Current /\ features = <<"age">>
        /\ op.file_headers = <<"age", "adult", "prediction", "created_at">>)
        => op.outcome.message # MissingColumns
    /\ (Operated /\ ~Current /\ features = <<"age">>
        /\ op.file_headers = <<"age", "adult">>)
        => op.outcome.message = MissingColumns

\* A reference file with a header twice and the timestamp, which is not
\* required, was accepted and bound.
C18_Witness ==
    /\ op.name = "load_reference_dataset"
    /\ features = <<"age">>
    /\ op.file_headers = <<"age", "age", "adult", "prediction", "created_at">>
    /\ op.handle \in JobStatus

\* C19: load_* uploads the file under the caller's object_name when one is
\* given and otherwise under {model_uuid}/{reference|current}/{the last
\* component of file_name}, into the caller's bucket, and its bind request
\* names that bucket and that key.
C19_ObjectKey ==
    (Loads /\ UploadsOf # {})
        => /\ op.calls[1].to = "upload_file"
           /\ op.calls[1].bucket = op.args.bucket
           /\ op.calls[1].key =
                 IF op.args.object_name # NoObjectName
                 THEN op.args.object_name
                 ELSE <<model_uuid, IF Current THEN "current" ELSE "reference",
                        op.args.file_name[Len(op.args.file_name)]>>
           /\ \A i \in BindsOf : /\ op.calls[i].bucket = op.calls[1].bucket
                                 /\ op.calls[i].key = op.calls[1].key

\* load_current_dataset without object_name uploaded a file named by a path
\* of three components, and bound it.
C19_Witness ==
    /\ op.name = "load_current_dataset"
    /\ op.args.object_name = NoObjectName
    /\ Len(op.args.file_name) = 3
    /\ BindsOf = {2}
    /\ op.handle \in JobStatus

\* C20: in load_* an upload is attempted only on a file that has every
\* required header, a bind request is sent only after an upload that
\* completed, and an upload that fails makes the operation raise ClientError
\* without a bind request and without a handle.
C20_ValidateUploadBind ==
    Loads
        => /\ UploadsOf # {} => (UploadsOf = {1} /\ RequiredNames \subseteq Range(op.file_headers))
           /\ BindsOf # {} => (BindsOf = {2} /\ UploadsOf = {1} /\ op.calls[1].ok)
           /\ (UploadsOf = {1} /\ ~op.calls[1].ok)
                => /\ op.outcome.raised = "ClientError"
                   /\ BindsOf = {}
                   /\ op.handle = NoHandle

\* The latest operation returned a handle.
HandleReturned == op.handle # NoHandle

\* C21 as stated: every handle a load_* or bind_* operation returns has the
\* status IMPORTING.
C21_Original == HandleReturned => op.handle = "IMPORTING"

\* C21: every handle a load_* or bind_* operation returns has the status of
\* the upload record the server acknowledged the bind request with.
C21_Amended ==
    HandleReturned
        => /\ BindsOf # {}
           /\ \A i \in BindsOf : op.handle = op.calls[i].acknowledged

\* A bind request was acknowledged with a record in SUCCEEDED and the
\* operation returned a handle in SUCCEEDED.
C21_Witness ==
    /\ op.name = "bind_reference_dataset"
    /\ op.handle = "SUCCEEDED"
    /\ op.calls[2].acknowledged = "SUCCEEDED"

\* The server answered the bind request of the latest operation with
\* something that is no upload record.
Unparseable ==
    /\ BindsOf # {}
    /\ \A i \in BindsOf : op.calls[i].ok /\ op.calls[i].acknowledged = NoAcknowledgment

\* C22: an operation whose bind request is answered with something that is
\* no upload record raises ClientError and returns no handle, and a handle
\* is returned only after a bind request acknowledged with an upload record.
C22_UnparseableAcknowledgment ==
    /\ Unparseable => (op.outcome.raised = "ClientError" /\ op.handle = NoHandle)
    /\ HandleReturned
        => \E i \in BindsOf : op.calls[i].ok /\ op.calls[i].acknowledged \in JobStatus

\* A step is a call of update_features.
Updates == op'.name = "update_features"

\* C23: a call of update_features whose request the server acknowledges with
\* success returns and leaves new_features as the local feature list; any
\* other call of update_features raises and leaves the local feature list
\* as it was.
C23_CommitAfterAcknowledgment ==
    [][Updates
        => IF op'.exchange = "acknowledged"
           THEN op'.outcome.raised = "" /\ features' = op'.args.new_features
           ELSE op'.outcome.raised # "" /\ features' = features]_vars

C25_NothingRetried ==
    /\ last.requests <= 1
    /\ Cardinality(UploadsOf) <= 1
    /\ Cardinality(BindsOf) <= 1

\* load_current_dataset uploaded the file, its bind request failed, and
\* neither was tried again.
C25_Witness ==
    /\ op.name = "load_current_dataset"
    /\ op.outcome.raised = "TransportFailure"
    /\ UploadsOf = {1}
    /\ BindsOf = {2}
    /\ Len(op.calls) = 2

\* C26: an accessor call whose request fails at the transport raises that
\* failure, leaves the status and the three slots as they were, and leaves
\* the accessor on the fetch arm it was on.
C26_TransportFailureChangesNothing ==
    [][(last'.op \in Accessors /\ last'.requests = 1 /\ ~last'.reply.ok)
        => /\ last'.outcome = "TransportFailure"
           /\ status' = status
           /\ SlotsUnchanged
           /\ \A a \in Accessors :
                 Calls(a) => /\ Branch(status, Slot(a)) = "fetch"
                             /\ Branch(status', Slot(a)') = "fetch"]_vars

\* The request of data_quality() failed at the transport on a SUCCEEDED
\* handle whose statistics are cached.
C26_Witness ==
    /\ last.op = "data_quality"
    /\ last.outcome = "TransportFailure"
    /\ status = "SUCCEEDED"
    /\ statistics # None
    /\ data_metrics = None

\* C27: uuid, path and date never change; a call of uuid(), path(), date()
\* or status() issues no request and changes neither the status nor a slot;
\* a transition of the server-side job changes nothing on the handle; and
\* the status and the slots change only in a step that is an accessor call.
C27_OnlyAccessorsChangeTheHandle ==
    [][/\ identity' = identity
       /\ (getter'.name # "" /\ job' = job)
            => /\ status' = status /\ SlotsUnchanged /\ last' = last
               /\ getter'.name = "status" => getter'.value = status
               /\ getter'.name = "uuid" => getter'.value = identity.uuid
               /\ getter'.name = "path" => getter'.value = identity.path
               /\ getter'.name = "date" => getter'.value = identity.date
       /\ job' # job => (status' = status /\ SlotsUnchanged /\ last' = last)
       /\ (status' # status \/ ~SlotsUnchanged)
            => (getter'.name = "" /\ job' = job /\ last'.op \in Accessors)]_vars

\* The server-side job has SUCCEEDED, no accessor was called since, and
\* status() returned IMPORTING.
C27_Witness ==
    /\ job = "SUCCEEDED"
    /\ status = "IMPORTING"
    /\ getter = [name |-> "status", value |-> "IMPORTING"]

\* A step is a call of one of the load_* and bind_* operations.
LoadsOrBinds ==
    op'.name \in {"load_reference_dataset", "bind_reference_dataset",
                  "load_current_dataset", "bind_current_dataset"}

\* C28: a load_* or bind_* operation, whether it returns or raises, leaves
\* the features, the outputs, the target and the timestamp of the model as
\* they were, and the headers it requires are built from those alone and
\* from its own correlation id column: nothing of an earlier call is in them.
C28_RegistryUntouched ==
    [][LoadsOrBinds
        => /\ features' = features
           /\ outputs' = outputs
           /\ target' = target
           /\ timestamp' = timestamp
           /\ op'.required # <<>>
                => op'.required =
                      ((features \o outputs) \o <<target>>)
                          \o (IF op'.name \in {"load_reference_dataset", "bind_reference_dataset"}
                              THEN <<>>
                              ELSE IF /\ op'.name = "load_current_dataset"
                                      /\ op'.args.correlation_id_column
                                             \in {NoColumn, EmptyColumn}
                              THEN <<timestamp>>
                              ELSE <<op'.args.correlation_id_column, timestamp>>)]_vars

\* load_current_dataset with a correlation id column returned a handle for
\* a model with two features, whose lists are as they were created.
C28_Witness ==
    /\ op.name = "load_current_dataset"
    /\ op.args.correlation_id_column = "id"
    /\ op.handle \in JobStatus
    /\ features = <<"age", "sex">>
    /\ op.required = <<"age", "sex", "prediction", "adult", "id", "created_at">>

\* The latest operation binds an object that is already in the storage.
Binds == op.name \in {"bind_reference_dataset", "bind_current_dataset"}

\* C29: bind_* uploads nothing; it first reads the object the caller's URL
\* names, sends the bind request only after the read returned and the
\* headers passed the validation, and sends it with the caller's URL; when
\* the read fails, so that no header row is there to be validated, it
\* raises ClientError and sends no bind request.
C29_BindReadsValidatesBinds ==
    Binds
        => /\ UploadsOf = {}
           /\ op.calls[1].to = "get_object"
           /\ op.calls[1].bucket = op.args.dataset_url.bucket
           /\ op.calls[1].key = op.args.dataset_url.key
           /\ BindsOf # {}
                => /\ BindsOf = {2}
                   /\ op.calls[1].ok
                   /\ RequiredNames \subseteq Range(op.file_headers)
                   /\ S3Url(op.calls[2].bucket, op.calls[2].key) = op.args.dataset_url
           /\ op.required = <<>>
                => /\ op.outcome.raised = "ClientError"
                   /\ BindsOf = {}
                   /\ op.handle = NoHandle

\* bind_reference_dataset bound the object that is stored under the model's
\* default key, named by the caller's URL.
C29_Witness ==
    /\ op.name = "bind_reference_dataset"
    /\ op.args.dataset_url.key = <<model_uuid, "reference", "ref.csv">>
    /\ op.handle \in JobStatus
    /\ Len(op.calls) = 2

\* C30: an accessor call answered with a jobStatus that is none of
\* IMPORTING, SUCCEEDED and ERROR raises ClientError and leaves the status
\* and the three slots as they were.
C30_UnknownJobStatusRaisesClientError ==
    [][(last'.op \in Accessors /\ last'.requests = 1 /\ last'.reply.ok
        /\ last'.reply.jobStatus \notin JobStatus \cup {"<absent>"})
        => /\ last'.outcome = "ClientError"
           /\ status' = status
           /\ SlotsUnchanged]_vars

AllReturned == \A t \in Threads : concurrent.pc[t] = "idle"

\* C32: nothing orders the statements of two overlapping accessor calls on
\* one handle, so the status can end up the one of an earlier response after
\* a later response with a different status was stored (C32_Witness: the
\* later one carried ERROR, and the handle has left ERROR again).  While the
\* calls are serialized, that is, no thread has taken a step while the other
\* was inside an accessor, the status is the one carried by the most recent
\* response, or that response is held by the thread about to store it.
C32_SerializedStatusIsLatest ==
    ~concurrent.overlapped =>
        \/ status = concurrent.latest
        \/ \E t \in Threads : /\ concurrent.pc[t] = "line82"
                               /\ concurrent.holds[t].status = concurrent.latest

C32_Witness ==
    /\ AllReturned
    /\ concurrent.overlapped
    /\ concurrent.latest = "ERROR"
    /\ status = "IMPORTING"

\* ------------------------------------------------------------------------
\* Properties of polling

\* The polled accessor is served from its cache: its calls return the
\* payload in its slot and issue no request.
Converged ==
    /\ status = "SUCCEEDED"
    /\ Slot(watch.accessor) \in Payloads
    /\ last.op = watch.accessor
          => last.requests = 0 /\ last.outcome = "return" /\ last.ret = Slot(watch.accessor)

\* The polled accessor has given up: its calls return None and issue no
\* request.
GaveUp ==
    /\ status = "ERROR"
    /\ last.op = watch.accessor
          => last.requests = 0 /\ last.outcome = "return" /\ last.ret = None

\* The polled accessor can parse a payload: statistics() on any model,
\* data_quality() and model_quality() on a binary model.
Parses == watch.accessor = "statistics" \/ model_type = "BINARY"

\* C33 as stated: whatever the accessor and the model type, once the job has
\* succeeded the polled accessor ends up served from its cache, and once
\* the job has failed it ends up returning None without a request.
C33_Original ==
    /\ (job = "SUCCEEDED") ~> []Converged
    /\ (job = "ERROR") ~> []GaveUp

\* C33: on a handle that started IMPORTING, polled through an accessor that
\* can parse a payload for the model's type, once the job has succeeded
\* and the server answers SUCCEEDED with a payload the accessor eventually
\* returns the payload and from then on issues no request; once the job has
\* ended in ERROR every call eventually returns None and issues no request.
C33_Amended ==
    /\ (Parses /\ job = "SUCCEEDED") ~> []Converged
    /\ (Parses /\ job = "ERROR") ~> []GaveUp

C33_Witness ==
    /\ job = "SUCCEEDED"
    /\ model_type = "BINARY"
    /\ watch.accessor = "data_quality"
    /\ last.op = "data_quality"
    /\ last.requests = 0
    /\ last.ret \in Payloads

\* ------------------------------------------------------------------------
\* Properties of the correlation id column

\* A step is a call of load_current_dataset without a correlation id
\* column: with None, or with the empty string.
LoadsWithoutColumn ==
    /\ op'.name = "load_current_dataset"
    /\ op'.args.correlation_id_column \in {NoColumn, EmptyColumn}

\* The required headers of a step on a current dataset are the feature,
\* output and target names, then extra.
RequiresBesides(extra) ==
    op'.required = ((features \o outputs) \o <<target>>) \o extra

\* The positions of the bind requests among the calls of a step's operation.
BindsSent == { i \in DOMAIN op'.calls : op'.calls[i].to = "current/bind" }

\* A step is a call of bind_current_dataset that got as far as computing
\* the required headers.
BindsCurrent ==
    /\ op'.name = "bind_current_dataset"
    /\ op'.required # <<>>

\* C34 as stated: load_current_dataset called with None or with the empty
\* string requires only the feature, output, target and timestamp names and
\* its bind request carries no correlation id column; bind_current_dataset
\* requires the given correlation id column too.
C34_Original ==
    [][/\ LoadsWithoutColumn
            => /\ RequiresBesides(<<timestamp>>)
               /\ \A i \in BindsSent : op'.calls[i].correlation_id_column = NoColumn
       /\ BindsCurrent
            => RequiresBesides(<<op'.args.correlation_id_column, timestamp>>)]_vars

\* C34: load_current_dataset called with None or with the empty string
\* requires only the feature, output, target and timestamp names, and its
\* bind request carries the argument as it was given: no correlation id
\* column for None, the empty string for the empty string;
\* bind_current_dataset requires the given correlation id column too, the
\* empty string included.
C34_Amended ==
    [][/\ LoadsWithoutColumn
            => /\ RequiresBesides(<<timestamp>>)
               /\ \A i \in BindsSent :
                      /\ op'.calls[i].correlation_id_column = op'.args.correlation_id_column
                      /\ op'.calls[i].correlation_id_column \notin ColumnNames
       /\ BindsCurrent
            => RequiresBesides(<<op'.args.correlation_id_column, timestamp>>)]_vars

\* load_current_dataset was given the empty string, required five names of
\* a model with two features and sent its bind request, which was answered
\* with a handle.
C34_Witness ==
    /\ op.name = "load_current_dataset"
    /\ op.args.correlation_id_column = EmptyColumn
    /\ op.required = <<"age", "sex", "prediction", "adult", "created_at">>
    /\ \E i \in BindsOf : op.calls[i].correlation_id_column = EmptyColumn
    /\ op.handle \in JobStatus

\* ------------------------------------------------------------------------
\* Properties of _get_file_headers

\* C35: _get_file_headers returns the text before the first newline of the
\* object (all of it when there is none) split on the separator, however
\* the body is cut into chunks.
C35_FirstLineWhateverTheChunks ==
    download.result # NotCalled
        => download.result = Headers(split(FirstLine(decode(download.body)), Comma))

====
